---- MODULE Spec2Model ----
(***************************************************************************)
(* Product API of server.js: an Express application over one in-memory     *)
(* array of products.  A state is the array, the number of UUIDs handed    *)
(* out so far, and the last request with the response it received.  Each   *)
(* action is one request travelling through the middleware chain of its    *)
(* route: logger, bodyParser.json, the JSON-error middleware, then the     *)
(* route's own middleware (authMiddleware, validateProduct) and handler,   *)
(* then errorHandler for whatever the handler throws.                      *)
(*                                                                         *)
(* Strings that the code inspects character by character (trim,            *)
(* toLowerCase, includes, parseInt) are sequences of one-character         *)
(* strings.  Ids, header values and messages, which are only compared      *)
(* for equality, are TLA+ strings.  An optional header or query parameter  *)
(* is <<>> when absent and <<v>> when present with value v.                *)
(***************************************************************************)
EXTENDS Integers, Sequences, FiniteSets, TLC

(* Bound: how many products the requests of one behaviour may create. *)
MaxCreates == 1

(***************************************************************************)
(* JavaScript values and string functions                                  *)
(***************************************************************************)

(* A JSON value of a request body field, with its typeof tag. *)
Undefined == [t |-> "undefined", s |-> <<>>, n |-> 0, b |-> FALSE]

Str(s) == [t |-> "string", s |-> s, n |-> 0, b |-> FALSE]

Num(n) == [t |-> "number", s |-> <<>>, n |-> n, b |-> FALSE]

Bool(b) == [t |-> "boolean", s |-> <<>>, n |-> 0, b |-> b]

(* !v *)
Falsy(v) ==
  \/ v.t = "undefined"
  \/ v.t = "string" /\ v.s = <<>>
  \/ v.t = "number" /\ v.n = 0
  \/ v.t = "boolean" /\ ~v.b

(* Boolean(v) *)
ToBoolean(v) == ~Falsy(v)

(* Number(v), on the types whose result is an integer. *)
ToNumber(v) ==
  CASE v.t = "number" -> v.n
    [] v.t = "boolean" -> IF v.b THEN 1 ELSE 0
    [] OTHER -> 0

Lower(c) ==
  CASE c = "A" -> "a"
    [] c = "B" -> "b"
    [] c = "C" -> "c"
    [] c = "D" -> "d"
    [] c = "E" -> "e"
    [] c = "F" -> "f"
    [] c = "G" -> "g"
    [] c = "H" -> "h"
    [] c = "I" -> "i"
    [] c = "J" -> "j"
    [] c = "K" -> "k"
    [] c = "L" -> "l"
    [] c = "M" -> "m"
    [] c = "N" -> "n"
    [] c = "O" -> "o"
    [] c = "P" -> "p"
    [] c = "Q" -> "q"
    [] c = "R" -> "r"
    [] c = "S" -> "s"
    [] c = "T" -> "t"
    [] c = "U" -> "u"
    [] c = "V" -> "v"
    [] c = "W" -> "w"
    [] c = "X" -> "x"
    [] c = "Y" -> "y"
    [] c = "Z" -> "z"
    [] OTHER -> c

RECURSIVE ToLowerCase(_)
ToLowerCase(s) ==
  IF s = <<>> THEN <<>> ELSE <<Lower(Head(s))>> \o ToLowerCase(Tail(s))

IsSpace(c) == c \in {" ", "\t"}

RECURSIVE TrimStart(_)
TrimStart(s) ==
  IF s # <<>> /\ IsSpace(Head(s)) THEN TrimStart(Tail(s)) ELSE s

RECURSIVE TrimEnd(_)
TrimEnd(s) ==
  IF s # <<>> /\ IsSpace(s[Len(s)])
  THEN TrimEnd(SubSeq(s, 1, Len(s) - 1))
  ELSE s

(* String.prototype.trim *)
Trim(s) == TrimEnd(TrimStart(s))

StartsWith(s, t) == Len(t) <= Len(s) /\ SubSeq(s, 1, Len(t)) = t

(* String.prototype.startsWith in place of includes *)
IncludesAtStart(s, t) == StartsWith(s, t)

(* String.prototype.includes *)
RECURSIVE Includes(_, _)
Includes(s, t) ==
  IF Len(t) > Len(s) THEN FALSE
  ELSE StartsWith(s, t) \/ Includes(Tail(s), t)

IsDigit(c) == c \in {"0", "1", "2", "3", "4", "5", "6", "7", "8", "9"}

DigitVal(c) ==
  CASE c = "0" -> 0
    [] c = "1" -> 1
    [] c = "2" -> 2
    [] c = "3" -> 3
    [] c = "4" -> 4
    [] c = "5" -> 5
    [] c = "6" -> 6
    [] c = "7" -> 7
    [] c = "8" -> 8
    [] c = "9" -> 9

RECURSIVE DigitsPrefix(_, _)
DigitsPrefix(s, acc) ==
  IF s = <<>> \/ ~IsDigit(Head(s)) THEN acc
  ELSE DigitsPrefix(Tail(s), 10 * acc + DigitVal(Head(s)))

NaN == [nan |-> TRUE, v |-> 0]

(* parseInt(p) of an optional query parameter, radix 10: leading white     *)
(* space, an optional sign, then the longest run of digits; NaN when the   *)
(* parameter is absent or no digit follows.                                *)
ParseInt(p) ==
  IF p = <<>> THEN NaN
  ELSE LET t == TrimStart(p[1])
           neg == t # <<>> /\ Head(t) = "-"
           u == IF t # <<>> /\ Head(t) \in {"-", "+"} THEN Tail(t) ELSE t
       IN  IF u = <<>> \/ ~IsDigit(Head(u)) THEN NaN
           ELSE [nan |-> FALSE,
                 v |-> IF neg THEN 0 - DigitsPrefix(u, 0) ELSE DigitsPrefix(u, 0)]

(* x || d for a parseInt result x: NaN and 0 are falsy. *)
OrDefault(x, d) == IF x.nan \/ x.v = 0 THEN d ELSE x.v

Min(a, b) == IF a < b THEN a ELSE b

Max(a, b) == IF a > b THEN a ELSE b

(* slice with the element at index end included. *)
SliceInclusive(arr, start, end) ==
  LET len == Len(arr)
      from == IF start < 0 THEN Max(len + start, 0) ELSE Min(start, len)
      to == IF end < 0 THEN Max(len + end + 1, 0) ELSE Min(end + 1, len)
  IN  SubSeq(arr, from + 1, to)

(* Array.prototype.slice(start, end), indices counted from 0. *)
Slice(arr, start, end) ==
  LET len == Len(arr)
      from == IF start < 0 THEN Max(len + start, 0) ELSE Min(start, len)
      to == IF end < 0 THEN Max(len + end, 0) ELSE Min(end, len)
  IN  SubSeq(arr, from + 1, to)

(* Math.floor(a / b) in place of Math.ceil *)
FloorDiv(a, b) == a \div b

(* Math.ceil(a / b) for a >= 0, b > 0 *)
CeilDiv(a, b) == (a + b - 1) \div b

(* Array.prototype.findIndex, counted from 1; 0 stands for -1. *)
RECURSIVE FindFrom(_, _, _)
FindFrom(arr, id, i) ==
  IF i > Len(arr) THEN 0
  ELSE IF arr[i].id = id THEN i
  ELSE FindFrom(arr, id, i + 1)

FindIndex(arr, id) == FindFrom(arr, id, 1)

(***************************************************************************)
(* The store                                                               *)
(***************************************************************************)

SeedProducts ==
  <<
    [id |-> "1",
     name |-> <<"L","a","p","t","o","p">>,
     description |->
       <<"H","i","g","h","-","p","e","r","f","o","r","m","a","n","c","e"," ","l","a","p","t","o","p"," ","w","i","t","h"," ","1","6","G","B"," ","R","A","M">>,
     price |-> 1200,
     category |-> <<"e","l","e","c","t","r","o","n","i","c","s">>,
     inStock |-> TRUE],
    [id |-> "2",
     name |-> <<"S","m","a","r","t","p","h","o","n","e">>,
     description |->
       <<"L","a","t","e","s","t"," ","m","o","d","e","l"," ","w","i","t","h"," ","1","2","8","G","B"," ","s","t","o","r","a","g","e">>,
     price |-> 800,
     category |-> <<"e","l","e","c","t","r","o","n","i","c","s">>,
     inStock |-> TRUE],
    [id |-> "3",
     name |-> <<"C","o","f","f","e","e"," ","M","a","k","e","r">>,
     description |->
       <<"P","r","o","g","r","a","m","m","a","b","l","e"," ","c","o","f","f","e","e"," ","m","a","k","e","r"," ","w","i","t","h"," ","t","i","m","e","r">>,
     price |-> 50,
     category |-> <<"k","i","t","c","h","e","n">>,
     inStock |-> FALSE],
    [id |-> "4",
     name |-> <<"G","a","m","i","n","g"," ","C","h","a","i","r">>,
     description |->
       <<"E","r","g","o","n","o","m","i","c"," ","g","a","m","i","n","g"," ","c","h","a","i","r"," ","w","i","t","h"," ","l","u","m","b","a","r"," ","s","u","p","p","o","r","t">>,
     price |-> 300,
     category |-> <<"f","u","r","n","i","t","u","r","e">>,
     inStock |-> TRUE],
    [id |-> "5",
     name |-> <<"W","i","r","e","l","e","s","s"," ","H","e","a","d","p","h","o","n","e","s">>,
     description |->
       <<"N","o","i","s","e","-","c","a","n","c","e","l","l","i","n","g"," ","w","i","r","e","l","e","s","s"," ","h","e","a","d","p","h","o","n","e","s">>,
     price |-> 150,
     category |-> <<"e","l","e","c","t","r","o","n","i","c","s">>,
     inStock |-> TRUE]
  >>

(* Identifiers numbered from "1", as a counter would hand them out. *)
counterId(n) ==
  CASE n = 1 -> "1"
    [] n = 2 -> "2"
    [] n = 3 -> "3"
    [] OTHER -> "4"

(* uuidv4(): the n-th identifier handed out.  The generator never repeats  *)
(* a value and never yields one of the seed ids.                           *)
uuidv4(n) ==
  CASE n = 1 -> "uuid-1"
    [] n = 2 -> "uuid-2"
    [] n = 3 -> "uuid-3"
    [] OTHER -> "uuid-4"

VARIABLES
  products,    \* the in-memory array
  uuidCount,   \* identifiers uuidv4 has handed out
  req,         \* the last request
  res,         \* the response it received
  stages,      \* the middleware and handlers that ran for it, in order
  sent,        \* the stages that wrote a response for it, in order
  flight       \* the requests in flight at the same time, when several are

vars == <<products, uuidCount, req, res, stages, sent, flight>>

(***************************************************************************)
(* Requests and responses                                                  *)
(***************************************************************************)

SecretKey == "your-secret-api-key"

EmptyBody ==
  [name |-> Undefined, description |-> Undefined, price |-> Undefined,
   category |-> Undefined, inStock |-> Undefined]

NoQuery == [category |-> <<>>, inStock |-> <<>>, page |-> <<>>, limit |-> <<>>, q |-> <<>>]

(* decode is what bodyParser.json makes of the payload: "ok" (parsed, or   *)
(* nothing to parse), "malformed" (a SyntaxError with status 400), or      *)
(* "failed" (any other error it raises, such as entity.too.large).  Only   *)
(* POST and PUT requests carry a payload; GET and DELETE requests have     *)
(* none, so there is nothing for bodyParser.json to reject.                *)
Request(method, path, id, apiKey, decode, body, query) ==
  [method |-> method, path |-> path, id |-> id, apiKey |-> apiKey,
   decode |-> decode, body |-> body, query |-> query]

NoPagination ==
  [currentPage |-> 0, totalPages |-> 0, totalProducts |-> 0,
   productsPerPage |-> 0, hasNextPage |-> FALSE, hasPrevPage |-> FALSE]

NoStats ==
  [total |-> 0, byCategory |-> <<>>, inStock |-> 0, outOfStock |-> 0,
   totalValue |-> 0, priceRange |-> [min |-> <<>>, max |-> <<>>],
   averagePrice |-> [num |-> 0, den |-> 1]]

(* A response: the status and the keys of its JSON body.  shape names the  *)
(* keys the body has; the keys it lacks hold the empty value here.  error  *)
(* and message are template strings, kept as the tuple of their pieces.    *)
(* thrown is empty for a response; a handler that throws leaves the        *)
(* exception's class there instead of a response (shape "throw").          *)
Response(status, shape, error, details, message, items, pagination, searchTerm, count) ==
  [status |-> status, shape |-> shape, error |-> error, details |-> details,
   message |-> message, items |-> items, pagination |-> pagination,
   searchTerm |-> searchTerm, count |-> count, stats |-> NoStats, thrown |-> ""]

NoResponse == Response(0, "none", <<>>, <<>>, <<>>, <<>>, NoPagination, <<>>, 0)

(* res.status(status).json({ error }) *)
ErrorResponse(status, error) ==
  Response(status, "error", error, <<>>, <<>>, <<>>, NoPagination, <<>>, 0)

(* res.status(status).json({ error, message }) *)
ErrorMessageResponse(status, error, message) ==
  Response(status, "error-message", error, <<>>, message, <<>>, NoPagination, <<>>, 0)

(* res.json(product) *)
ProductResponse(product) ==
  Response(200, "product", <<>>, <<>>, <<>>, <<product>>, NoPagination, <<>>, 0)

(* res.status(status).json({ message, product }) *)
MessageResponse(status, message, product) ==
  Response(status, "message", <<>>, <<>>, <<message>>, <<product>>, NoPagination, <<>>, 0)

(* res.json(stats) *)
StatsResponse(stats) ==
  [Response(200, "stats", <<>>, <<>>, <<>>, <<>>, NoPagination, <<>>, 0)
     EXCEPT !.stats = stats]

(* throw new <name>(message), or the TypeError the runtime raises. *)
Thrown(name, message) ==
  [Response(0, "throw", message, <<>>, <<>>, <<>>, NoPagination, <<>>, 0)
     EXCEPT !.thrown = name]

(* What a handler or middleware leaves behind: the response and the store. *)
Outcome(response, store, count) ==
  [res |-> response, products |-> store, uuidCount |-> count]

(***************************************************************************)
(* Middleware                                                              *)
(***************************************************************************)

(* The error middleware after bodyParser.json answers a SyntaxError of     *)
(* status 400 itself.                                                      *)
JsonErrorResponds(err) ==
  err.name = "SyntaxError" /\ err.status = 400 /\ err.body

JsonErrorResponse == ErrorResponse(400, <<"Invalid JSON format">>)

(* req.body as the routes see it: the parsed object, or the {} that        *)
(* bodyParser.json leaves when it parsed nothing.                          *)
ReqBody(r) == IF r.decode = "ok" THEN r.body ELSE EmptyBody

(* authMiddleware: TRUE when it answers 401 instead of calling next(). *)
authMiddleware(r) ==
  \/ r.apiKey = <<>>
  \/ r.apiKey[1] = ""
  \/ r.apiKey[1] # SecretKey

UnauthorizedResponse ==
  ErrorResponse(401,
    <<"Unauthorized: Invalid or missing API key. Include x-api-key header.">>)

IsBlank(v) == Falsy(v) \/ v.t # "string" \/ Len(Trim(v.s)) = 0

(* validateProduct answering with the first failed check alone. *)
validateProductFirstOnly(body) ==
  IF IsBlank(body.name)
  THEN <<"Name is required and must be a non-empty string">>
  ELSE IF IsBlank(body.description)
  THEN <<"Description is required and must be a non-empty string">>
  ELSE IF body.price.t = "undefined" \/ body.price.t # "number" \/ body.price.n <= 0
  THEN <<"Price is required and must be a positive number">>
  ELSE IF IsBlank(body.category)
  THEN <<"Category is required and must be a non-empty string">>
  ELSE IF body.inStock.t # "undefined" /\ body.inStock.t # "boolean"
  THEN <<"inStock must be a boolean value">>
  ELSE <<>>

(* validateProduct with the price check written price < 0. *)
validateProductZeroPrice(body) ==
  (IF IsBlank(body.name)
   THEN <<"Name is required and must be a non-empty string">> ELSE <<>>)
  \o
  (IF IsBlank(body.description)
   THEN <<"Description is required and must be a non-empty string">> ELSE <<>>)
  \o
  (IF body.price.t = "undefined" \/ body.price.t # "number" \/ body.price.n < 0
   THEN <<"Price is required and must be a positive number">> ELSE <<>>)
  \o
  (IF IsBlank(body.category)
   THEN <<"Category is required and must be a non-empty string">> ELSE <<>>)
  \o
  (IF body.inStock.t # "undefined" /\ body.inStock.t # "boolean"
   THEN <<"inStock must be a boolean value">> ELSE <<>>)

(* validateProduct: the errors array, in the order of the checks. *)
validateProduct(body) ==
  (IF IsBlank(body.name)
   THEN <<"Name is required and must be a non-empty string">> ELSE <<>>)
  \o
  (IF IsBlank(body.description)
   THEN <<"Description is required and must be a non-empty string">> ELSE <<>>)
  \o
  (IF body.price.t = "undefined" \/ body.price.t # "number" \/ body.price.n <= 0
   THEN <<"Price is required and must be a positive number">> ELSE <<>>)
  \o
  (IF IsBlank(body.category)
   THEN <<"Category is required and must be a non-empty string">> ELSE <<>>)
  \o
  (IF body.inStock.t # "undefined" /\ body.inStock.t # "boolean"
   THEN <<"inStock must be a boolean value">> ELSE <<>>)

ValidationResponse(errors) ==
  Response(400, "validation", <<"Validation failed">>, errors, <<>>, <<>>,
           NoPagination, <<>>, 0)

(* throw new NotFoundError(`Product with ID ${id} not found`) *)
NotFoundError(id) ==
  Thrown("NotFoundError", <<"Product with ID ", id, " not found">>)

(***************************************************************************)
(* Routes                                                                  *)
(***************************************************************************)

DefaultPage == 1

DefaultLimit == 10

TrueString == <<"t", "r", "u", "e">>

(* The category filter compared without toLowerCase. *)
filterByCategoryExact(items, category) ==
  IF category # <<>> /\ category[1] # <<>>
  THEN SelectSeq(items, LAMBDA p : p.category = category[1])
  ELSE items

(* The category filter of GET /api/products: applied when req.query.category *)
(* is truthy, that is present and not the empty string.                    *)
filterByCategory(items, category) ==
  IF category # <<>> /\ category[1] # <<>>
  THEN SelectSeq(items,
         LAMBDA p : ToLowerCase(p.category) = ToLowerCase(category[1]))
  ELSE items

(* The stock filter of GET /api/products: applied when req.query.inStock   *)
(* is not undefined.                                                       *)
filterByStock(items, inStock) ==
  IF inStock # <<>>
  THEN LET inStockFilter == inStock[1] = TrueString
       IN  SelectSeq(items, LAMBDA p : p.inStock = inStockFilter)
  ELSE items

(* GET /api/products: the handler. *)
GetProducts(r, store) ==
  LET query == r.query
      filteredProducts ==
        filterByStock(filterByCategory(store, query.category), query.inStock)
      page == OrDefault(ParseInt(query.page), DefaultPage)
      limit == OrDefault(ParseInt(query.limit), DefaultLimit)
      startIndex == (page - 1) * limit
      endIndex == page * limit
      paginatedProducts == Slice(filteredProducts, startIndex, endIndex)
  IN  IF page < 1 \/ limit < 1
      THEN ErrorResponse(400, <<"Page and limit must be positive integers">>)
      ELSE Response(200, "list", <<>>, <<>>, <<>>, paginatedProducts,
             [currentPage |-> page,
              totalPages |-> CeilDiv(Len(filteredProducts), limit),
              totalProducts |-> Len(filteredProducts),
              productsPerPage |-> limit,
              hasNextPage |-> endIndex < Len(filteredProducts),
              hasPrevPage |-> page > 1],
             <<>>, 0)

(* GET /api/products/search: the handler. *)
SearchProducts(r, store) ==
  LET q == r.query.q
  IN  IF q = <<>> \/ (Len(q) = 1 /\ q[1] = <<>>)
      THEN ErrorResponse(400, <<"Search query parameter \"q\" is required">>)
      ELSE IF Len(q) > 1
      THEN Thrown("TypeError", <<"q.toLowerCase is not a function">>)
      ELSE LET searchTerm == ToLowerCase(q[1])
               searchResults ==
                 SelectSeq(store,
                   LAMBDA p : \/ Includes(ToLowerCase(p.name), searchTerm)
                              \/ Includes(ToLowerCase(p.description), searchTerm))
           IN  Response(200, "search", <<>>, <<>>, <<>>, searchResults,
                        NoPagination, q[1], Len(searchResults))

(* GET /api/products/:id: the handler; a NotFoundError goes to errorHandler. *)
GetProductById(r, store) ==
  LET productIndex == FindIndex(store, r.id)
  IN  IF productIndex = 0
      THEN NotFoundError(r.id)
      ELSE ProductResponse(store[productIndex])

(* The create handler with products.unshift in place of products.push. *)
CreateProductUnshift(r, store, count) ==
  LET body == ReqBody(r)
      inStock == IF body.inStock.t = "undefined" THEN Bool(TRUE) ELSE body.inStock
      newProduct ==
        [id |-> uuidv4(count + 1),
         name |-> Trim(body.name.s),
         description |-> Trim(body.description.s),
         price |-> ToNumber(body.price),
         category |-> ToLowerCase(Trim(body.category.s)),
         inStock |-> ToBoolean(inStock)]
  IN  Outcome(MessageResponse(201, "Product created successfully", newProduct),
              <<newProduct>> \o store, count + 1)

(* The create handler storing the category trimmed but in the case given. *)
CreateProductKeepCase(r, store, count) ==
  LET body == ReqBody(r)
      inStock == IF body.inStock.t = "undefined" THEN Bool(TRUE) ELSE body.inStock
      newProduct ==
        [id |-> uuidv4(count + 1),
         name |-> Trim(body.name.s),
         description |-> Trim(body.description.s),
         price |-> ToNumber(body.price),
         category |-> Trim(body.category.s),
         inStock |-> ToBoolean(inStock)]
  IN  Outcome(MessageResponse(201, "Product created successfully", newProduct),
              Append(store, newProduct), count + 1)

(* POST /api/products: the handler. *)
CreateProduct(r, store, count) ==
  LET body == ReqBody(r)
      inStock == IF body.inStock.t = "undefined" THEN Bool(TRUE) ELSE body.inStock
      newProduct ==
        [id |-> uuidv4(count + 1),
         name |-> Trim(body.name.s),
         description |-> Trim(body.description.s),
         price |-> ToNumber(body.price),
         category |-> ToLowerCase(Trim(body.category.s)),
         inStock |-> ToBoolean(inStock)]
  IN  Outcome(MessageResponse(201, "Product created successfully", newProduct),
              Append(store, newProduct), count + 1)

(* The update handler giving inStock the default the create handler has. *)
UpdateProductDefaultTrue(r, store, count) ==
  LET productIndex == FindIndex(store, r.id)
      body == ReqBody(r)
      inStock == IF body.inStock.t = "undefined" THEN Bool(TRUE) ELSE body.inStock
      updatedProduct ==
        [store[productIndex] EXCEPT
           !.name = Trim(body.name.s),
           !.description = Trim(body.description.s),
           !.price = ToNumber(body.price),
           !.category = ToLowerCase(Trim(body.category.s)),
           !.inStock = ToBoolean(inStock)]
  IN  IF productIndex = 0
      THEN Outcome(NotFoundError(r.id), store, count)
      ELSE Outcome(MessageResponse(200, "Product updated successfully", updatedProduct),
                   [store EXCEPT ![productIndex] = updatedProduct], count)

(* PUT /api/products/:id: the handler. *)
UpdateProduct(r, store, count) ==
  LET productIndex == FindIndex(store, r.id)
      body == ReqBody(r)
      updatedProduct ==
        [store[productIndex] EXCEPT
           !.name = Trim(body.name.s),
           !.description = Trim(body.description.s),
           !.price = ToNumber(body.price),
           !.category = ToLowerCase(Trim(body.category.s)),
           !.inStock = ToBoolean(body.inStock)]
  IN  IF productIndex = 0
      THEN Outcome(NotFoundError(r.id), store, count)
      ELSE Outcome(MessageResponse(200, "Product updated successfully", updatedProduct),
                   [store EXCEPT ![productIndex] = updatedProduct], count)

(* Array.prototype.pop in place of splice: the array without its last element. *)
SplicePop(arr, index) == SubSeq(arr, 1, Len(arr) - 1)

(* Array.prototype.splice(index, 1): the array without its index-th element. *)
Splice(arr, index) ==
  SubSeq(arr, 1, index - 1) \o SubSeq(arr, index + 1, Len(arr))

(* The delete handler without its productIndex === -1 check: splice(-1, 1) *)
(* removes the last record.                                                *)
DeleteProductUnchecked(r, store, count) ==
  LET productIndex == FindIndex(store, r.id)
      index == IF productIndex = 0 THEN Len(store) ELSE productIndex
  IN  IF store = <<>>
      THEN Outcome(NotFoundError(r.id), store, count)
      ELSE Outcome(MessageResponse(200, "Product deleted successfully",
                                   store[index]),
                   Splice(store, index), count)

(* DELETE /api/products/:id: the handler. *)
DeleteProduct(r, store, count) ==
  LET productIndex == FindIndex(store, r.id)
  IN  IF productIndex = 0
      THEN Outcome(NotFoundError(r.id), store, count)
      ELSE Outcome(MessageResponse(200, "Product deleted successfully",
                                   store[productIndex]),
                   Splice(store, productIndex), count)

(* GET /: the handler. *)
GetRoot ==
  Response(200, "root", <<>>, <<>>, <<"Welcome to the Product API!">>, <<>>,
           NoPagination, <<>>, 0)

(* The reducer of GET /api/stats: one product folded into the accumulator. *)
StatsReducer(acc, product) ==
  [acc EXCEPT
     !.byCategory =
        [c \in DOMAIN @ \cup {product.category} |->
           IF c = product.category
           THEN (IF c \in DOMAIN @ THEN @[c] ELSE 0) + 1
           ELSE @[c]],
     !.inStock = IF product.inStock THEN @ + 1 ELSE @,
     !.outOfStock = IF product.inStock THEN @ ELSE @ + 1,
     !.totalValue = @ + product.price,
     !.priceRange =
        [min |-> IF @.min = <<>> \/ @.min[1] = 0 \/ product.price < @.min[1]
                 THEN <<product.price>> ELSE @.min,
         max |-> IF @.max = <<>> \/ @.max[1] = 0 \/ product.price > @.max[1]
                 THEN <<product.price>> ELSE @.max]]

(* Array.prototype.reduce with StatsReducer, from the i-th element on. *)
RECURSIVE Reduce(_, _, _)
Reduce(arr, i, acc) ==
  IF i > Len(arr) THEN acc ELSE Reduce(arr, i + 1, StatsReducer(acc, arr[i]))

(* The quotient a / b of two numbers, kept as a fraction. *)
Quotient(a, b) == [num |-> a, den |-> b]

(* The statistics with averagePrice computed as a quotient whatever total is. *)
GetStatsUnguarded(r, store) ==
  LET stats == Reduce(store, 1, [NoStats EXCEPT !.total = Len(store)])
  IN  StatsResponse([stats EXCEPT
                       !.averagePrice = Quotient(stats.totalValue, stats.total)])

(* GET /api/stats: the handler.  priceRange holds <<>> for null. *)
GetStats(r, store) ==
  LET stats == Reduce(store, 1, [NoStats EXCEPT !.total = Len(store)])
  IN  StatsResponse([stats EXCEPT
                       !.averagePrice = IF stats.total > 0
                                        THEN Quotient(stats.totalValue, stats.total)
                                        ELSE Quotient(0, 1)])

(***************************************************************************)
(* The Express application: the stack of layers and its dispatch           *)
(***************************************************************************)

(* An error travelling down the stack: what next(err) was called with. *)
Error(name, status, message, body) ==
  [name |-> name, status |-> status, message |-> message, body |-> body]

NoError == Error("", 0, <<>>, FALSE)

(* What bodyParser.json raises for a payload it cannot decode: a           *)
(* SyntaxError of status 400 that holds the body, or another error of its  *)
(* own (here entity.too.large, status 413) that does not.                  *)
BodyParserError(decode) ==
  IF decode = "malformed"
  THEN Error("SyntaxError", 400, <<"Unexpected token in JSON">>, TRUE)
  ELSE Error("PayloadTooLargeError", 413, <<"request entity too large">>, FALSE)

(* A request on its way down the stack.  signal is what the last stage     *)
(* did: "next" (called next()), "error" (called next(err) or threw) or     *)
(* "end" (wrote a response and called nothing).                            *)
Context(r, store, count) ==
  [req |-> r, products |-> store, uuidCount |-> count, res |-> NoResponse,
   err |-> NoError, signal |-> "next", stages |-> <<>>, sent |-> <<>>]

(* res.json(...): the first response is the one the client receives. *)
Send(ctx, stage, response) ==
  [ctx EXCEPT !.res = IF ctx.sent = <<>> THEN response ELSE @,
              !.sent = Append(@, stage),
              !.signal = "end"]

(* next() *)
CallNext(ctx) == [ctx EXCEPT !.signal = "next", !.err = NoError]

(* next(err) *)
CallNextError(ctx, err) == [ctx EXCEPT !.signal = "error", !.err = err]

(* A layer of the stack: app.use(fn) is mounted on every method and path,  *)
(* a route on one method and one path pattern; an error layer takes four   *)
(* arguments and runs only for a request that carries an error.            *)
Layer(kind, method, path, chain) ==
  [kind |-> kind, method |-> method, path |-> path, chain |-> chain]

(* The segments of the request's URL. *)
Url(r) ==
  CASE r.path = "/" -> <<>>
    [] r.path = "/api/products" -> <<"api", "products">>
    [] r.path = "/api/products/search" -> <<"api", "products", "search">>
    [] r.path = "/api/products/:id" -> <<"api", "products", r.id>>
    [] r.path = "/api/stats" -> <<"api", "stats">>
    [] OTHER -> <<"api", "unknown">>

(* path-to-regexp: a pattern segment ":id" takes any segment. *)
PathMatches(pattern, url) ==
  \/ pattern = <<"*">>
  \/ /\ Len(pattern) = Len(url)
     /\ \A i \in 1..Len(pattern) : pattern[i] = ":id" \/ pattern[i] = url[i]

(* Whether the stack hands the request to the layer. *)
LayerMatches(layer, ctx) ==
  /\ (layer.kind = "error") = (ctx.signal = "error")
  /\ layer.method \in {"*", ctx.req.method}
  /\ PathMatches(layer.path, Url(ctx.req))

(* req.params as the layer's pattern fills it. *)
WithParams(layer, r) ==
  IF Len(layer.path) = 3 /\ layer.path[3] = ":id" /\ Len(Url(r)) = 3
  THEN [r EXCEPT !.id = Url(r)[3]]
  ELSE r

(* asyncHandler: the handler's response is sent and its effect on the      *)
(* store kept; what it throws goes to next.                                *)
asyncHandler(ctx, stage, out) ==
  IF out.res.shape = "throw"
  THEN CallNextError(ctx, Error(out.res.thrown, 0, out.res.error, FALSE))
  ELSE Send([ctx EXCEPT !.products = out.products, !.uuidCount = out.uuidCount],
            stage, out.res)

(* errorHandler answering an unrecognized error with the error's message. *)
errorHandlerEchoMessage(err) ==
  IF err.name = "NotFoundError" THEN ErrorResponse(404, err.message)
  ELSE IF err.name = "ValidationError" THEN ErrorResponse(400, err.message)
  ELSE IF err.name = "CastError" THEN ErrorResponse(400, <<"Invalid ID format">>)
  ELSE ErrorMessageResponse(500, <<"Internal Server Error">>, err.message)

(* errorHandler: the response for an error. *)
errorHandler(err) ==
  IF err.name = "NotFoundError" THEN ErrorResponse(404, err.message)
  ELSE IF err.name = "ValidationError" THEN ErrorResponse(400, err.message)
  ELSE IF err.name = "CastError" THEN ErrorResponse(400, <<"Invalid ID format">>)
  ELSE ErrorMessageResponse(500, <<"Internal Server Error">>,
                            <<"Something went wrong on the server">>)

(* The JSON error middleware without the return before res.status(400):   *)
(* it answers and calls next() all the same.                               *)
jsonErrorMiddlewareNoReturn(ctx) ==
  IF JsonErrorResponds(ctx.err)
  THEN CallNext(Send(ctx, "jsonErrorMiddleware", JsonErrorResponse))
  ELSE CallNext(ctx)

(* The JSON error middleware: it answers a SyntaxError of status 400 and   *)
(* calls next() without the error for any other.                           *)
jsonErrorMiddleware(ctx) ==
  IF JsonErrorResponds(ctx.err)
  THEN Send(ctx, "jsonErrorMiddleware", JsonErrorResponse)
  ELSE CallNext(ctx)

(* One stage of a layer run on the request. *)
RunStage(stage, r, ctx) ==
  CASE stage = "loggerMiddleware" -> CallNext(ctx)
    [] stage = "bodyParser.json" ->
         IF r.decode = "ok" THEN CallNext(ctx)
         ELSE CallNextError(ctx, BodyParserError(r.decode))
    [] stage = "jsonErrorMiddleware" -> jsonErrorMiddleware(ctx)
    [] stage = "authMiddleware" ->
         IF authMiddleware(r) THEN Send(ctx, stage, UnauthorizedResponse)
         ELSE CallNext(ctx)
    [] stage = "validateProduct" ->
         IF validateProduct(ReqBody(r)) # <<>>
         THEN Send(ctx, stage, ValidationResponse(validateProduct(ReqBody(r))))
         ELSE CallNext(ctx)
    [] stage = "getRoot" ->
         Send(ctx, stage, GetRoot)
    [] stage = "getProducts" ->
         asyncHandler(ctx, stage,
                      Outcome(GetProducts(r, ctx.products), ctx.products, ctx.uuidCount))
    [] stage = "searchProducts" ->
         asyncHandler(ctx, stage,
                      Outcome(SearchProducts(r, ctx.products), ctx.products, ctx.uuidCount))
    [] stage = "getStats" ->
         asyncHandler(ctx, stage,
                      Outcome(GetStats(r, ctx.products), ctx.products, ctx.uuidCount))
    [] stage = "getProductById" ->
         asyncHandler(ctx, stage,
                      Outcome(GetProductById(r, ctx.products), ctx.products, ctx.uuidCount))
    [] stage = "createProduct" ->
         asyncHandler(ctx, stage, CreateProduct(r, ctx.products, ctx.uuidCount))
    [] stage = "updateProduct" ->
         asyncHandler(ctx, stage, UpdateProduct(r, ctx.products, ctx.uuidCount))
    [] stage = "deleteProduct" ->
         asyncHandler(ctx, stage, DeleteProduct(r, ctx.products, ctx.uuidCount))
    [] stage = "routeNotFound" ->
         Send(ctx, stage,
              ErrorMessageResponse(404, <<"Route not found">>,
                                   <<"Cannot ", r.method, " ", r.path>>))
    [] stage = "errorHandler" ->
         Send(ctx, stage, errorHandler(ctx.err))

(* The stages of one layer from the k-th on: each runs when the one before *)
(* it called next().                                                       *)
RECURSIVE RunChain(_, _, _, _)
RunChain(chain, k, r, ctx) ==
  IF k > Len(chain) \/ (k > 1 /\ ctx.signal # "next")
  THEN ctx
  ELSE RunChain(chain, k + 1, r,
                RunStage(chain[k], r, [ctx EXCEPT !.stages = Append(@, chain[k])]))

(* finalhandler: what Express answers when the stack is exhausted. *)
FinalHandler(ctx) ==
  IF ctx.signal = "error"
  THEN Send(ctx, "finalhandler",
            Response(IF ctx.err.status >= 400 THEN ctx.err.status ELSE 500,
                     "html", <<>>, <<>>, <<>>, <<>>, NoPagination, <<>>, 0))
  ELSE Send(ctx, "finalhandler",
            Response(404, "html", <<>>, <<>>, <<>>, <<>>, NoPagination, <<>>, 0))

(* The layers of a stack from the i-th on, in registration order. *)
RECURSIVE Dispatch(_, _, _)
Dispatch(stack, i, ctx) ==
  IF ctx.signal = "end" THEN ctx
  ELSE IF i > Len(stack) THEN FinalHandler(ctx)
  ELSE IF LayerMatches(stack[i], ctx)
  THEN Dispatch(stack, i + 1,
                RunChain(stack[i].chain, 1, WithParams(stack[i], ctx.req), ctx))
  ELSE Dispatch(stack, i + 1, ctx)

ProductsPath == <<"api", "products">>
ProductPath == <<"api", "products", ":id">>

LoggerLayer == Layer("use", "*", <<"*">>, <<"loggerMiddleware">>)
BodyParserLayer == Layer("use", "*", <<"*">>, <<"bodyParser.json">>)
JsonErrorLayer == Layer("error", "*", <<"*">>, <<"jsonErrorMiddleware">>)
RootRoute == Layer("route", "GET", <<>>, <<"getRoot">>)
GetProductsRoute == Layer("route", "GET", ProductsPath, <<"getProducts">>)
SearchProductsRoute ==
  Layer("route", "GET", <<"api", "products", "search">>, <<"searchProducts">>)
StatsRoute == Layer("route", "GET", <<"api", "stats">>, <<"getStats">>)
GetProductRoute == Layer("route", "GET", ProductPath, <<"getProductById">>)

(* app.post('/api/products', authMiddleware, validateProduct, handler) *)
PostProductsRoute ==
  Layer("route", "POST", ProductsPath,
        <<"authMiddleware", "validateProduct", "createProduct">>)

(* The PUT route with validateProduct registered before authMiddleware. *)
PutProductRouteValidateFirst ==
  Layer("route", "PUT", ProductPath,
        <<"validateProduct", "authMiddleware", "updateProduct">>)

(* app.put('/api/products/:id', authMiddleware, validateProduct, handler) *)
PutProductRoute ==
  Layer("route", "PUT", ProductPath,
        <<"authMiddleware", "validateProduct", "updateProduct">>)

(* app.delete('/api/products/:id', authMiddleware, handler) *)
DeleteProductRoute ==
  Layer("route", "DELETE", ProductPath, <<"authMiddleware", "deleteProduct">>)

CatchAllLayer == Layer("use", "*", <<"*">>, <<"routeNotFound">>)
ErrorHandlerLayer == Layer("error", "*", <<"*">>, <<"errorHandler">>)

(* The stack with the :id route registered before the search route. *)
AppIdBeforeSearch ==
  <<LoggerLayer, BodyParserLayer, JsonErrorLayer, RootRoute, GetProductsRoute,
    GetProductRoute, SearchProductsRoute, StatsRoute, PostProductsRoute,
    PutProductRoute, DeleteProductRoute, CatchAllLayer, ErrorHandlerLayer>>

(* The application's stack, in the order of the app.use and app.METHOD calls. *)
App ==
  <<LoggerLayer, BodyParserLayer, JsonErrorLayer, RootRoute, GetProductsRoute,
    SearchProductsRoute, StatsRoute, GetProductRoute, PostProductsRoute,
    PutProductRoute, DeleteProductRoute, CatchAllLayer, ErrorHandlerLayer>>

(* The request taken down the whole stack. *)
Serve(r, store, count) == Dispatch(App, 1, Context(r, store, count))

(***************************************************************************)
(* Inputs                                                                  *)
(***************************************************************************)

ApiKeys == {<<>>, <<"wrong-key">>, <<SecretKey>>}

Decodes == {"ok", "malformed", "failed"}

NameValues == {Undefined, Num(7), Str(<<" ">>), Str(<<" ", "T", "v", " ">>)}

DescriptionValues == {Undefined, Str(<<"d", " ">>)}

PriceValues == {Undefined, Str(<<"1", "0">>), Num(0), Num(10)}

CategoryValues == {Undefined, Str(<<" ">>), Str(<<" ", "C", "a", "t", " ">>)}

InStockValues == {Undefined, Bool(TRUE), Bool(FALSE), Str(<<"y", "e", "s">>)}

(* The bodies a request may carry; one that did not decode has no fields. *)
Bodies(decode) ==
  IF decode = "ok"
  THEN [name : NameValues, description : DescriptionValues, price : PriceValues,
        category : CategoryValues, inStock : InStockValues]
  ELSE {EmptyBody}

RequestIds == {"1", "3", "nope"} \cup {uuidv4(i) : i \in 1..MaxCreates}

CategoryParams ==
  {<<>>, << <<>> >>, << <<"K", "I", "T", "C", "H", "E", "N">> >>,
   << <<"e", "l", "e", "c", "t", "r", "o", "n", "i", "c", "s">> >>}

InStockParams == {<<>>, << TrueString >>, << <<"n", "o">> >>}

PageParams ==
  {<<>>, << <<"0">> >>, << <<"-", "1">> >>, << <<"1">> >>, << <<"2">> >>,
   << <<"3">> >>, << <<"a">> >>}

LimitParams ==
  {<<>>, << <<"0">> >>, << <<"-", "2">> >>, << <<"1">> >>, << <<"2">> >>,
   << <<" ", "2", "x">> >>, << <<"x">> >>}

(* The values of q: absent, given once, or given twice (?q=a&q=b), which   *)
(* the query parser hands over as an array.                                *)
SearchParams ==
  {<<>>, << <<>> >>, << <<"L", "A", "P">> >>, << <<"R", "a", "m">> >>,
   << <<"t", "v">> >>, << <<"a">>, <<"b">> >>}

(* Requests no route is registered for. *)
UnmatchedMethods == {"GET", "POST", "PATCH"}

(* The query strings of a listing request. *)
ListQueries ==
  [category : CategoryParams, inStock : InStockParams, page : PageParams,
   limit : LimitParams, q : {<<>>}]

(***************************************************************************)
(* The state machine                                                       *)
(***************************************************************************)

NoRequest == Request("", "", "", <<>>, "ok", EmptyBody, NoQuery)

MaxInFlight == 2

Slots == 1..MaxInFlight

(* A connection: no request on it, a request received whose body is being  *)
(* read, or a request that was answered.                                   *)
Slot(phase, r, response) == [phase |-> phase, req |-> r, res |-> response]

NoSlot == Slot("none", NoRequest, NoResponse)

(* The requests in flight, and the store as it was when the first of them  *)
(* arrived (nothing is kept while none is in flight).                      *)
Flight(store, count, slots) == [base |-> store, baseCount |-> count, slots |-> slots]

NoFlight == Flight(<<>>, 0, [s \in Slots |-> NoSlot])

Init ==
  /\ products = SeedProducts
  /\ uuidCount = 0
  /\ req = NoRequest
  /\ res = NoResponse
  /\ stages = <<>>
  /\ sent = <<>>
  /\ flight = NoFlight

(* One request is taken down the stack at a time: the stages and handlers  *)
(* are synchronous, so a request is answered before the next is looked at. *)
Idle == req = NoRequest

Handle(r, out) ==
  /\ req' = r
  /\ res' = out.res
  /\ products' = out.products
  /\ uuidCount' = out.uuidCount
  /\ stages' = out.stages
  /\ sent' = out.sent
  /\ UNCHANGED flight

RootRequest ==
  /\ Idle
  /\ LET r == Request("GET", "/", "", <<>>, "ok", EmptyBody, NoQuery)
     IN  \E out \in {Serve(r, products, uuidCount)} : Handle(r, out)

ListRequest ==
  /\ Idle
  /\ \E query \in ListQueries :
       LET r == Request("GET", "/api/products", "", <<>>, "ok", EmptyBody, query)
       IN  \E out \in {Serve(r, products, uuidCount)} : Handle(r, out)

SearchRequest ==
  /\ Idle
  /\ \E q \in SearchParams :
       LET r == Request("GET", "/api/products/search", "", <<>>, "ok", EmptyBody,
                        [NoQuery EXCEPT !.q = q])
       IN  \E out \in {Serve(r, products, uuidCount)} : Handle(r, out)

StatsRequest ==
  /\ Idle
  /\ LET r == Request("GET", "/api/stats", "", <<>>, "ok", EmptyBody, NoQuery)
     IN  \E out \in {Serve(r, products, uuidCount)} : Handle(r, out)

GetRequest ==
  /\ Idle
  /\ \E id \in RequestIds :
       LET r == Request("GET", "/api/products/:id", id, <<>>, "ok", EmptyBody,
                        NoQuery)
       IN  \E out \in {Serve(r, products, uuidCount)} : Handle(r, out)

PostRequest ==
  /\ Idle
  /\ \E apiKey \in ApiKeys : \E decode \in Decodes : \E body \in Bodies(decode) :
       LET r == Request("POST", "/api/products", "", apiKey, decode, body, NoQuery)
       IN  \E out \in {Serve(r, products, uuidCount)} :
             /\ out.uuidCount <= MaxCreates
             /\ Handle(r, out)

PutRequest ==
  /\ Idle
  /\ \E apiKey \in ApiKeys : \E decode \in Decodes : \E body \in Bodies(decode) :
       \E id \in RequestIds :
         LET r == Request("PUT", "/api/products/:id", id, apiKey, decode, body,
                          NoQuery)
         IN  \E out \in {Serve(r, products, uuidCount)} : Handle(r, out)

DeleteRequest ==
  /\ Idle
  /\ \E apiKey \in ApiKeys : \E id \in RequestIds :
       LET r == Request("DELETE", "/api/products/:id", id, apiKey, "ok",
                        EmptyBody, NoQuery)
       IN  \E out \in {Serve(r, products, uuidCount)} : Handle(r, out)

UnmatchedRequest ==
  /\ Idle
  /\ \E method \in UnmatchedMethods : \E apiKey \in ApiKeys :
       \E decode \in IF method = "GET" THEN {"ok"} ELSE Decodes :
         LET r == Request(method, "/api/unknown", "", apiKey, decode, EmptyBody,
                          NoQuery)
         IN  \E out \in {Serve(r, products, uuidCount)} : Handle(r, out)

(* The response has been sent; the request and response objects are gone. *)
EndRequest ==
  /\ req # NoRequest
  /\ req' = NoRequest
  /\ res' = NoResponse
  /\ stages' = <<>>
  /\ sent' = <<>>
  /\ UNCHANGED <<products, uuidCount, flight>>

Next ==
  \/ EndRequest
  \/ RootRequest
  \/ ListRequest
  \/ SearchRequest
  \/ StatsRequest
  \/ GetRequest
  \/ PostRequest
  \/ PutRequest
  \/ DeleteRequest
  \/ UnmatchedRequest

Spec == Init /\ [][Next]_vars

(***************************************************************************)
(* The store under authorized, valid requests alone: every record can be   *)
(* deleted, so the store can be emptied, and the statistics read at any    *)
(* point.                                                                  *)
(***************************************************************************)

ValidBodies == {body \in Bodies("ok") : validateProduct(body) = <<>>}

AllIds ==
  {SeedProducts[i].id : i \in 1..Len(SeedProducts)}
    \cup {uuidv4(i) : i \in 1..MaxCreates}

ValidCreateRequest ==
  /\ Idle
  /\ \E body \in ValidBodies :
       LET r == Request("POST", "/api/products", "", <<SecretKey>>, "ok", body,
                        NoQuery)
       IN  \E out \in {Serve(r, products, uuidCount)} :
             /\ out.uuidCount <= MaxCreates
             /\ Handle(r, out)

AnyDeleteRequest ==
  /\ Idle
  /\ \E id \in AllIds :
       LET r == Request("DELETE", "/api/products/:id", id, <<SecretKey>>, "ok",
                        EmptyBody, NoQuery)
       IN  \E out \in {Serve(r, products, uuidCount)} : Handle(r, out)

NextStats ==
  \/ EndRequest
  \/ StatsRequest
  \/ ValidCreateRequest
  \/ AnyDeleteRequest

SpecStats == Init /\ [][NextStats]_vars

(***************************************************************************)
(* Several requests in flight.  Node runs the application on one thread:   *)
(* a request yields to the event loop only while bodyParser.json waits for *)
(* the payload; from there on the stack down to the response is one        *)
(* synchronous run (the handlers are synchronous functions, so the promise *)
(* asyncHandler wraps them in is settled before it is made).               *)
(***************************************************************************)

ConcurrentIds == {"1", "2"}

ConcurrentBodies == {body \in ValidBodies : body.inStock = Bool(TRUE)}

ConcurrentRequests ==
  {Request("GET", "/api/products/:id", id, <<>>, "ok", EmptyBody, NoQuery) :
     id \in ConcurrentIds}
  \cup
  {Request("DELETE", "/api/products/:id", id, <<SecretKey>>, "ok", EmptyBody, NoQuery) :
     id \in ConcurrentIds}
  \cup
  {Request("PUT", "/api/products/:id", id, <<SecretKey>>, "ok", body, NoQuery) :
     id \in ConcurrentIds, body \in ConcurrentBodies}
  \cup
  {Request("POST", "/api/products", "", <<SecretKey>>, "ok", body, NoQuery) :
     body \in ConcurrentBodies}

(* The creates in flight that were not answered yet. *)
PendingCreates ==
  Cardinality({s \in Slots : /\ flight.slots[s].phase = "reading"
                             /\ flight.slots[s].req.method = "POST"})

(* A request arrives on a free connection. *)
Arrive(s) ==
  /\ flight.slots[s].phase = "none"
  /\ \E r \in ConcurrentRequests :
       /\ r.method = "POST" => uuidCount + PendingCreates < MaxCreates
       /\ flight' =
            IF flight = NoFlight
            THEN Flight(products, uuidCount,
                        [NoFlight.slots EXCEPT ![s] = Slot("reading", r, NoResponse)])
            ELSE [flight EXCEPT !.slots[s] = Slot("reading", r, NoResponse)]
  /\ UNCHANGED <<products, uuidCount, req, res, stages, sent>>

(* The store with the value it had when the requests in flight began. *)
StaleStore(s) == flight.base

(* The store a handler reads when it runs: the array as it is then. *)
HandlerStore(s) == products

(* The payload is in: the rest of the stack runs to the response. *)
Complete(s) ==
  /\ flight.slots[s].phase = "reading"
  /\ \E out \in {Serve(flight.slots[s].req, HandlerStore(s), uuidCount)} :
       /\ products' = out.products
       /\ uuidCount' = out.uuidCount
       /\ flight' = [flight EXCEPT
                       !.slots[s] = Slot("done", flight.slots[s].req, out.res)]
  /\ UNCHANGED <<req, res, stages, sent>>

(* Every request in flight was answered; the connections are free again. *)
Drain ==
  /\ \A s \in Slots : flight.slots[s].phase # "reading"
  /\ \E s \in Slots : flight.slots[s].phase = "done"
  /\ flight' = NoFlight
  /\ UNCHANGED <<products, uuidCount, req, res, stages, sent>>

NextConcurrent ==
  \/ \E s \in Slots : Arrive(s)
  \/ \E s \in Slots : Complete(s)
  \/ Drain

SpecConcurrent == Init /\ [][NextConcurrent]_vars

(***************************************************************************)
(* Properties                                                              *)
(***************************************************************************)

Ids(store) == {store[i].id : i \in 1..Len(store)}

(* A create, update or delete request: one for a route that changes the store. *)
Mutating(r) ==
  \/ r.method = "POST" /\ r.path = "/api/products"
  \/ r.method \in {"PUT", "DELETE"} /\ r.path = "/api/products/:id"

(* The x-api-key header is missing or is not the configured secret. *)
BadCredential(r) == r.apiKey = <<>> \/ r.apiKey # <<SecretKey>>

(* C1 as stated: every create, update or delete request whose x-api-key    *)
(* header is missing or wrong is answered 401, whatever its body and id,   *)
(* and leaves the store as it was.                                         *)
C1_AsStated ==
  [][(Mutating(req') /\ BadCredential(req'))
       => (res'.status = 401 /\ products' = products)]_vars

(* C1, amended: every create, update or delete request whose x-api-key     *)
(* header is missing or wrong and whose payload is not malformed JSON is   *)
(* answered 401 with an error body and leaves the store as it was, whether *)
(* or not its body passes validation and its id is in the store; a         *)
(* payload that is malformed JSON is answered 400 before the credential    *)
(* check, and the store is left as it was as well.                         *)
C1_Unauthorized ==
  [][(Mutating(req') /\ BadCredential(req'))
       => /\ products' = products
          /\ uuidCount' = uuidCount
          /\ IF req'.decode = "malformed"
             THEN res'.status = 400 /\ res'.error = <<"Invalid JSON format">>
             ELSE res'.status = 401 /\ res'.shape = "error"]_vars

(* An unauthorized PUT with a body that fails validation, addressed to an  *)
(* id that is not in the store, answered 401 after the store has changed.  *)
C1_Witness ==
  /\ req.method = "PUT"
  /\ req.apiKey = <<"wrong-key">>
  /\ req.decode = "ok"
  /\ req.body.name = Undefined
  /\ req.id = "nope"
  /\ res.status = 401
  /\ products # SeedProducts

SpaceChars == {" ", "\t"}

UpperChars ==
  {"A", "B", "C", "D", "E", "F", "G", "H", "I", "J", "K", "L", "M", "N", "O",
   "P", "Q", "R", "S", "T", "U", "V", "W", "X", "Y", "Z"}

(* A non-empty string with no white space at either end. *)
NonEmptyTrimmed(s) ==
  /\ Len(s) > 0
  /\ s[1] \notin SpaceChars
  /\ s[Len(s)] \notin SpaceChars

ValidRecord(p) ==
  /\ NonEmptyTrimmed(p.name)
  /\ NonEmptyTrimmed(p.description)
  /\ p.price \in Int /\ p.price > 0
  /\ NonEmptyTrimmed(p.category)
  /\ \A k \in 1..Len(p.category) : p.category[k] \notin UpperChars
  /\ p.inStock \in BOOLEAN

(* C2: every stored record has a non-empty trimmed name and description,   *)
(* a price greater than zero, a non-empty trimmed lowercase category and   *)
(* a boolean inStock.                                                      *)
C2_StoredRecordsValid ==
  \A i \in 1..Len(products) : ValidRecord(products[i])

(* A record written by a create from a body with padded, mixed-case        *)
(* fields, next to one rewritten by an update.                             *)
C2_Witness ==
  /\ res.status = 201
  /\ req.body.category = Str(<<" ", "C", "a", "t", " ">>)
  /\ products[Len(products)].category = <<"c", "a", "t">>
  /\ products[Len(products)].name = <<"T", "v">>
  /\ \E i \in 1..Len(products) :
       products[i].id = "1" /\ products[i].name = <<"T", "v">>

UpperSeq ==
  <<"A", "B", "C", "D", "E", "F", "G", "H", "I", "J", "K", "L", "M", "N", "O",
    "P", "Q", "R", "S", "T", "U", "V", "W", "X", "Y", "Z">>

LowerSeq ==
  <<"a", "b", "c", "d", "e", "f", "g", "h", "i", "j", "k", "l", "m", "n", "o",
    "p", "q", "r", "s", "t", "u", "v", "w", "x", "y", "z">>

(* The lowercase form of one character. *)
LowerOf(c) ==
  IF \E k \in 1..26 : UpperSeq[k] = c
  THEN LowerSeq[CHOOSE k \in 1..26 : UpperSeq[k] = c]
  ELSE c

(* t is s without the white space at its two ends; with lower, also with   *)
(* every character in lowercase.                                           *)
IsTrimmedForm(t, s, lower) ==
  /\ t = <<>> \/ (t[1] \notin SpaceChars /\ t[Len(t)] \notin SpaceChars)
  /\ \E i \in 0..Len(s) :
       /\ i + Len(t) <= Len(s)
       /\ \A k \in 1..i : s[k] \in SpaceChars
       /\ \A k \in (i + Len(t) + 1)..Len(s) : s[k] \in SpaceChars
       /\ \A k \in 1..Len(t) :
            t[k] = IF lower THEN LowerOf(s[i + k]) ELSE s[i + k]

(* What GET /api/products/:id answers for id over the given store. *)
FetchById(store, id) ==
  LET out == GetProductById(
               Request("GET", "/api/products/:id", id, <<>>, "ok", EmptyBody,
                       NoQuery), store)
  IN  IF out.shape = "throw"
      THEN errorHandler(Error(out.thrown, 0, out.error, FALSE))
      ELSE out

(* C4: after a create answered 201 or an update answered 200 with body B,  *)
(* a GET of the product's id (the id returned by the create, the id        *)
(* addressed by the update) answers 200 with B's name and description      *)
(* trimmed, B's price, B's category trimmed and in lowercase, and B's      *)
(* inStock (true when the create omitted it); and a GET of an id answers   *)
(* the same record until an update or a delete of that id succeeds.        *)
C4_ReadYourWrite ==
  [][/\ (res'.status = 201 \/ (req'.method = "PUT" /\ res'.status = 200))
          => LET B == req'.body
                 id == IF req'.method = "PUT" THEN req'.id ELSE res'.items[1].id
                 got == FetchById(products', id)
             IN  /\ got.status = 200
                 /\ got.shape = "product"
                 /\ got.items[1].id = id
                 /\ IsTrimmedForm(got.items[1].name, B.name.s, FALSE)
                 /\ IsTrimmedForm(got.items[1].description, B.description.s, FALSE)
                 /\ got.items[1].price = B.price.n
                 /\ IsTrimmedForm(got.items[1].category, B.category.s, TRUE)
                 /\ B.inStock.t = "boolean" => got.items[1].inStock = B.inStock.b
                 /\ (B.inStock = Undefined /\ req'.method = "POST")
                      => got.items[1].inStock = TRUE
     /\ \A id \in Ids(products) :
          ~(req'.method \in {"PUT", "DELETE"} /\ req'.id = id /\ res'.status = 200)
            => FetchById(products', id) = FetchById(products, id)]_vars

(* A create from a body with a padded mixed-case category and no inStock,  *)
(* answered 201, whose record a GET would return with category "cat" and   *)
(* inStock true.                                                           *)
C4_Witness ==
  /\ res.status = 201
  /\ req.body.category = Str(<<" ", "C", "a", "t", " ">>)
  /\ req.body.inStock = Undefined
  /\ FetchById(products, res.items[1].id).status = 200
  /\ FetchById(products, res.items[1].id).items[1].category = <<"c", "a", "t">>
  /\ FetchById(products, res.items[1].id).items[1].inStock = TRUE

Authorized(r) == r.apiKey = <<SecretKey>>

(* The ids given to a record so far: those of the seed records and those   *)
(* the creates were given.                                                 *)
IssuedIds == Ids(SeedProducts) \cup {uuidv4(i) : i \in 1..uuidCount}

RecordOf(store, id) == store[CHOOSE i \in 1..Len(store) : store[i].id = id]

(* C5: an authorized DELETE of an id in the store answers 200 with the     *)
(* record it removes; an id that was removed is in the store never again,  *)
(* whatever request follows; and a DELETE or a GET of an id that is not in *)
(* the store answers 404.                                                  *)
C5_DeleteThenNotFound ==
  [][/\ (req'.method = "DELETE" /\ Authorized(req'))
          => IF req'.id \in Ids(products)
             THEN /\ res'.status = 200
                  /\ res'.items = <<RecordOf(products, req'.id)>>
                  /\ req'.id \notin Ids(products')
             ELSE /\ res'.status = 404
                  /\ res'.shape = "error"
                  /\ products' = products
     /\ (req'.method = "GET" /\ req'.path = "/api/products/:id")
          => (res'.status = 404 /\ res'.shape = "error") = (req'.id \notin Ids(products))
     /\ \A id \in IssuedIds \ Ids(products) : id \notin Ids(products')]_vars

(* A GET answered 404 for the id of a product that was created and then    *)
(* deleted, and one for a deleted seed record after a create.              *)
C5_Witness ==
  /\ req.method = "GET"
  /\ req.path = "/api/products/:id"
  /\ res.status = 404
  /\ \/ req.id = "uuid-1" /\ uuidCount = 1
     \/ req.id = "1" /\ uuidCount = 1 /\ Len(products) = 5

(* A body whose name, description, price and category pass validation. *)
OtherFieldsValid(b) ==
  /\ b.name.t = "string" /\ \E k \in 1..Len(b.name.s) : b.name.s[k] \notin SpaceChars
  /\ b.description.t = "string"
  /\ \E k \in 1..Len(b.description.s) : b.description.s[k] \notin SpaceChars
  /\ b.price.t = "number" /\ b.price.n > 0
  /\ b.category.t = "string"
  /\ \E k \in 1..Len(b.category.s) : b.category.s[k] \notin SpaceChars

OmitsInStock(r) ==
  /\ Authorized(r)
  /\ r.decode = "ok"
  /\ OtherFieldsValid(r.body)
  /\ r.body.inStock = Undefined

(* C6 as stated: an authorized PUT on an id in the store whose body has    *)
(* valid name, description, price and category and no inStock is answered  *)
(* 400 and leaves the store as it was, and a create that omits inStock is  *)
(* answered 201 and stores inStock = true.                                 *)
C6_AsStated ==
  [][/\ (req'.method = "PUT" /\ OmitsInStock(req') /\ req'.id \in Ids(products))
          => (res'.status = 400 /\ products' = products)
     /\ (req'.method = "POST" /\ OmitsInStock(req'))
          => (res'.status = 201 /\ products'[Len(products')].inStock = TRUE)]_vars

(* C6, amended: inStock is optional on a full update as well: an           *)
(* authorized PUT on an id in the store whose body has valid name,         *)
(* description, price and category and no inStock is answered 200 and      *)
(* rewrites the addressed record with inStock = false, leaving every other *)
(* record as it was, whereas a create that omits inStock is answered 201   *)
(* and stores inStock = true.                                              *)
C6_InStockOptional ==
  [][/\ (req'.method = "PUT" /\ OmitsInStock(req') /\ req'.id \in Ids(products))
          => /\ res'.status = 200
             /\ res'.items[1].inStock = FALSE
             /\ RecordOf(products', req'.id) = res'.items[1]
             /\ Len(products') = Len(products)
             /\ \A i \in 1..Len(products) :
                  products[i].id # req'.id => products'[i] = products[i]
     /\ (req'.method = "POST" /\ OmitsInStock(req'))
          => /\ res'.status = 201
             /\ res'.items[1].inStock = TRUE
             /\ products' = Append(products, res'.items[1])]_vars

(* A PUT without inStock on seed record "1", which was in stock, answered  *)
(* 200 and leaving the record out of stock.                                *)
C6_Witness ==
  /\ req.method = "PUT"
  /\ OmitsInStock(req)
  /\ req.id = "1"
  /\ res.status = 200
  /\ RecordOf(products, "1").inStock = FALSE

IsListing(r) == r.method = "GET" /\ r.path = "/api/products"

(* The decimal numerals of some non-positive and some positive integers. *)
NonPositiveNumerals == {<<"0">>, <<"-", "1">>, <<"-", "2">>}

PositiveNumerals == {<<"1">>, <<"2">>, <<"3">>}

NumeralValue(s) ==
  CASE s = <<"1">> -> 1
    [] s = <<"2">> -> 2
    [] s = <<"3">> -> 3

AllDigits == {"0", "1", "2", "3", "4", "5", "6", "7", "8", "9"}

(* The parameter is absent or has no digit in it. *)
AbsentOrNonNumeric(p) ==
  p = <<>> \/ \A k \in 1..Len(p[1]) : p[1][k] \notin AllDigits

IsNonPositive(p) == p # <<>> /\ p[1] \in NonPositiveNumerals

(* C7 as stated: on the listing, page and limit are 1 and 10 when the      *)
(* parameter is absent or non-numeric, and a request whose page or limit   *)
(* is zero or negative is answered 400 with an error and no product list.  *)
C7_AsStated ==
  IsListing(req)
    => /\ (IsNonPositive(req.query.page) \/ IsNonPositive(req.query.limit))
            => (res.status = 400 /\ res.shape = "error" /\ res.items = <<>>)
       /\ (res.status = 200 /\ AbsentOrNonNumeric(req.query.page))
            => res.pagination.currentPage = 1
       /\ (res.status = 200 /\ AbsentOrNonNumeric(req.query.limit))
            => res.pagination.productsPerPage = 10

EqualIgnoringCase(a, b) ==
  /\ Len(a) = Len(b)
  /\ \A k \in 1..Len(a) : LowerOf(a[k]) = LowerOf(b[k])

(* The record passes every filter the query carries; an empty category     *)
(* parameter counts as no category filter.                                 *)
Kept(p, query) ==
  /\ (query.category # <<>> /\ query.category[1] # <<>>)
       => EqualIgnoringCase(p.category, query.category[1])
  /\ query.inStock # <<>> => (p.inStock = (query.inStock[1] = TrueString))

(* The filtered sequence: the kept records, in store order. *)
Filtered(store, query) == SelectSeq(store, LAMBDA p : Kept(p, query))

(* C8: for page and limit positive integers, the listing answers 200 with  *)
(* the elements of the filtered sequence F at indices                      *)
(* [(page-1)*limit, page*limit), in order, currentPage = page,             *)
(* productsPerPage = limit, totalProducts = |F|, totalPages the least n    *)
(* with n*limit >= |F|, hasNextPage exactly when page*limit < |F| and      *)
(* hasPrevPage exactly when page > 1.                                      *)
C8_Window ==
  (/\ IsListing(req)
   /\ req.query.page # <<>> /\ req.query.page[1] \in PositiveNumerals
   /\ req.query.limit # <<>> /\ req.query.limit[1] \in PositiveNumerals)
    => LET page == NumeralValue(req.query.page[1])
           limit == NumeralValue(req.query.limit[1])
           F == Filtered(products, req.query)
           first == (page - 1) * limit
           last == IF page * limit < Len(F) THEN page * limit ELSE Len(F)
           pg == res.pagination
       IN  /\ res.status = 200
           /\ res.shape = "list"
           /\ Len(res.items) = (IF last > first THEN last - first ELSE 0)
           /\ \A k \in 1..Len(res.items) : res.items[k] = F[first + k]
           /\ pg.currentPage = page
           /\ pg.productsPerPage = limit
           /\ pg.totalProducts = Len(F)
           /\ pg.totalPages >= 0
           /\ pg.totalPages * limit >= Len(F)
           /\ (pg.totalPages - 1) * limit < Len(F)
           /\ pg.hasNextPage = (page * limit < Len(F))
           /\ pg.hasPrevPage = (page > 1)

(* The second page of two of the three electronics records in stock, after *)
(* an update moved a record out of that category: one record, no next page.*)
C8_Witness ==
  /\ IsListing(req)
  /\ req.query.page = << <<"2">> >>
  /\ req.query.limit = << <<"2">> >>
  /\ req.query.category # <<>> /\ req.query.category[1] # <<>>
  /\ req.query.inStock = << TrueString >>
  /\ products # SeedProducts
  /\ res.status = 200
  /\ Len(res.items) = 1
  /\ res.pagination.totalPages = 2
  /\ res.pagination.totalProducts = 3
  /\ res.pagination.hasPrevPage

(* The record passes every filter the query carries, an empty category     *)
(* parameter being a filter like any other.                                *)
KeptAsStated(p, query) ==
  /\ query.category # <<>> => EqualIgnoringCase(p.category, query.category[1])
  /\ query.inStock # <<>> => (p.inStock = (query.inStock[1] = TrueString))

(* C9 as stated: the listing returns, in store order, the records that     *)
(* pass every filter present, a category parameter keeping the records     *)
(* whose category equals it ignoring case.                                 *)
C9_AsStated ==
  (IsListing(req) /\ res.status = 200)
    => LET F == SelectSeq(products, LAMBDA p : KeptAsStated(p, req.query))
       IN  /\ res.pagination.totalProducts = Len(F)
           /\ (req.query.page = <<>> /\ req.query.limit = <<>>) => res.items = F

(* C9, amended: the listing returns, in store order, exactly the records   *)
(* that pass every filter in force: a category parameter that is not the   *)
(* empty string keeps the records whose category equals it ignoring case,  *)
(* an inStock parameter equal to "true" keeps the in-stock records and     *)
(* any other present value the out-of-stock records, and a parameter that  *)
(* is absent, or a category parameter that is empty, filters nothing;      *)
(* filtering the result again by the same category changes nothing.        *)
C9_Filters ==
  (IsListing(req) /\ res.status = 200)
    => LET F == Filtered(products, req.query)
       IN  /\ res.pagination.totalProducts = Len(F)
           /\ (req.query.page = <<>> /\ req.query.limit = <<>>)
                => /\ res.items = F
                   /\ filterByCategory(res.items, req.query.category) = res.items

(* A listing filtered by category "KITCHEN" and by stock, with the default *)
(* page and limit, that returns seed record "3" alone, from a store a      *)
(* delete has shortened.                                                   *)
C9_Witness ==
  /\ IsListing(req)
  /\ req.query.page = <<>> /\ req.query.limit = <<>>
  /\ req.query.category = << <<"K", "I", "T", "C", "H", "E", "N">> >>
  /\ req.query.inStock = << <<"n", "o">> >>
  /\ res.status = 200
  /\ Len(res.items) = 1
  /\ res.items[1].id = "3"
  /\ Len(products) < 5

IsSearch(r) == r.method = "GET" /\ r.path = "/api/products/search"

(* s contains q somewhere, ignoring case. *)
ContainsIgnoringCase(s, q) ==
  \E i \in 0..(Len(s) - Len(q)) :
    \A k \in 1..Len(q) : LowerOf(s[i + k]) = LowerOf(q[k])

(* C10: for a non-empty q the search answers 200 with exactly the records  *)
(* whose name or description contains q ignoring case, in store order,     *)
(* count their number and searchTerm q as supplied; with q absent or empty *)
(* it answers 400 with an error and no results.  (q is a string: the       *)
(* parameter is given at most once.)                                       *)
C10_Search ==
  (IsSearch(req) /\ Len(req.query.q) <= 1)
    => IF req.query.q = <<>> \/ req.query.q[1] = <<>>
       THEN res.status = 400 /\ res.shape = "error" /\ res.items = <<>>
       ELSE LET q == req.query.q[1]
            IN  /\ res.status = 200
                /\ res.shape = "search"
                /\ res.items =
                     SelectSeq(products,
                       LAMBDA p : \/ ContainsIgnoringCase(p.name, q)
                                  \/ ContainsIgnoringCase(p.description, q))
                /\ res.count = Len(res.items)
                /\ res.searchTerm = q

(* A search for "Ram" that finds two seed records by their descriptions    *)
(* alone ("16GB RAM", "Programmable") in a store that a create has grown.  *)
C10_Witness ==
  /\ IsSearch(req)
  /\ req.query.q = << <<"R", "a", "m">> >>
  /\ res.status = 200
  /\ res.count = 2
  /\ res.items[1].id = "1"
  /\ res.items[2].id = "3"
  /\ Len(products) = 6

(***************************************************************************)
(* C11: the statistics                                                     *)
(***************************************************************************)

IsStats(r) == r.method = "GET" /\ r.path = "/api/stats"

(* The positions of the store whose record satisfies Test. *)
Positions(store, Test(_)) == {i \in 1..Len(store) : Test(store[i])}

RECURSIVE SumOfPrices(_, _)
SumOfPrices(store, positions) ==
  IF positions = {} THEN 0
  ELSE LET i == CHOOSE j \in positions : TRUE
       IN  store[i].price + SumOfPrices(store, positions \ {i})

Prices(store) == {store[i].price : i \in 1..Len(store)}

Categories(store) == {store[i].category : i \in 1..Len(store)}

(* C11: in every store state, the emptied store included, the statistics   *)
(* response has total = the number of records, byCategory[c] = the number  *)
(* of records of category c, inStock and outOfStock = the numbers of       *)
(* records with inStock true and false, totalValue = the sum of the        *)
(* prices, averagePrice = totalValue / total when total > 0 and 0 when     *)
(* total = 0, and priceRange.min and priceRange.max = the smallest and the *)
(* largest price, both null when the store is empty.                       *)
C11_Statistics ==
  IsStats(req)
    => /\ res.status = 200
       /\ res.shape = "stats"
       /\ res.stats.total = Len(products)
       /\ DOMAIN res.stats.byCategory = Categories(products)
       /\ \A c \in Categories(products) :
            res.stats.byCategory[c]
              = Cardinality(Positions(products, LAMBDA p : p.category = c))
       /\ res.stats.inStock
            = Cardinality(Positions(products, LAMBDA p : p.inStock))
       /\ res.stats.outOfStock
            = Cardinality(Positions(products, LAMBDA p : ~p.inStock))
       /\ res.stats.totalValue = SumOfPrices(products, 1..Len(products))
       /\ res.stats.averagePrice.den # 0
       /\ IF Len(products) > 0
          THEN /\ res.stats.averagePrice.num * Len(products)
                    = res.stats.totalValue * res.stats.averagePrice.den
               /\ res.stats.priceRange.min
                    = << CHOOSE m \in Prices(products) :
                           \A n \in Prices(products) : m <= n >>
               /\ res.stats.priceRange.max
                    = << CHOOSE m \in Prices(products) :
                           \A n \in Prices(products) : m >= n >>
          ELSE /\ res.stats.averagePrice.num = 0
               /\ res.stats.priceRange = [min |-> <<>>, max |-> <<>>]

(* The statistics read from a store that deletes have emptied. *)
C11_Witness ==
  /\ IsStats(req)
  /\ products = <<>>
  /\ uuidCount = MaxCreates
  /\ res.status = 200
  /\ res.stats.total = 0
  /\ res.stats.priceRange.min = <<>>

(***************************************************************************)
(* C12: validation reports every violated rule                             *)
(***************************************************************************)

(* A string with at least one character that is not white space. *)
NonBlankString(v) ==
  v.t = "string" /\ \E i \in 1..Len(v.s) : v.s[i] \notin SpaceChars

(* The field rules, in their fixed order, each with its message. *)
FieldRules(body) ==
  << [ok |-> NonBlankString(body.name),
      message |-> "Name is required and must be a non-empty string"],
     [ok |-> NonBlankString(body.description),
      message |-> "Description is required and must be a non-empty string"],
     [ok |-> body.price.t = "number" /\ body.price.n > 0,
      message |-> "Price is required and must be a positive number"],
     [ok |-> NonBlankString(body.category),
      message |-> "Category is required and must be a non-empty string"],
     [ok |-> body.inStock.t \in {"undefined", "boolean"},
      message |-> "inStock must be a boolean value"] >>

(* The messages of the rules the body violates, in the order of the rules. *)
RECURSIVE ViolationsFrom(_, _)
ViolationsFrom(rules, i) ==
  IF i > Len(rules) THEN <<>>
  ELSE (IF rules[i].ok THEN <<>> ELSE <<rules[i].message>>)
         \o ViolationsFrom(rules, i + 1)

Violations(body) == ViolationsFrom(FieldRules(body), 1)

IsCreateOrUpdate(r) ==
  \/ r.method = "POST" /\ r.path = "/api/products"
  \/ r.method = "PUT" /\ r.path = "/api/products/:id"

Handlers ==
  {"getRoot", "getProducts", "searchProducts", "getStats", "getProductById",
   "createProduct", "updateProduct", "deleteProduct"}

Ran(trace) == {trace[i] : i \in 1..Len(trace)}

(* C12: every authorized create or update whose (decoded) body violates at *)
(* least one field rule is answered 400 with a details list holding one    *)
(* message for each violated rule, all of them, in the order name,         *)
(* description, price, category, inStock; the handler does not run (an     *)
(* invalid update of an id that is not in the store gets 400, not 404) and *)
(* the store is unchanged.                                                 *)
C12_AllViolations ==
  [][(/\ IsCreateOrUpdate(req')
      /\ req'.apiKey = <<SecretKey>>
      /\ req'.decode = "ok"
      /\ Violations(req'.body) # <<>>)
       => /\ res'.status = 400
          /\ res'.shape = "validation"
          /\ res'.error = <<"Validation failed">>
          /\ res'.details = Violations(req'.body)
          /\ Ran(stages') \cap Handlers = {}
          /\ products' = products
          /\ uuidCount' = uuidCount]_vars

(* An authorized update of an id that is not in the store, with a body     *)
(* that violates all five rules, answered 400 with the five messages.      *)
C12_Witness ==
  /\ req.method = "PUT"
  /\ req.id = "nope"
  /\ req.apiKey = <<SecretKey>>
  /\ req.decode = "ok"
  /\ req.body.name = Str(<<" ">>)
  /\ req.body.inStock = Str(<<"y", "e", "s">>)
  /\ res.status = 400
  /\ Len(res.details) = 5
  /\ res.details[5] = "inStock must be a boolean value"
  /\ products # SeedProducts

(***************************************************************************)
(* C13: a payload that fails to decode                                     *)
(***************************************************************************)

(* The stages registered on a route, and the catch-all that ends routing. *)
RoutingStages ==
  Handlers \cup {"authMiddleware", "validateProduct", "routeNotFound"}

(* C13 as stated: whenever bodyParser.json signals a failure for a request *)
(* the request is answered with an error (400 for malformed JSON) before   *)
(* routing: no route-scoped stage and no handler runs for it, it is not    *)
(* passed on to routing with an empty body, and the store is unchanged.    *)
C13_AsStated ==
  [][req'.decode # "ok"
       => /\ res'.status >= 400
          /\ res'.error # <<>>
          /\ (req'.decode = "malformed" => res'.status = 400)
          /\ Ran(stages') \cap RoutingStages = {}
          /\ products' = products]_vars

(***************************************************************************)
(* C14: exceptions and unmatched routes                                    *)
(***************************************************************************)

ByIdHandlers == {"getProductById", "updateProduct", "deleteProduct"}

IsUnmatched(r) == r.path = "/api/unknown"

(* The one body every unrecognized exception is answered with. *)
GenericServerError ==
  [NoResponse EXCEPT !.status = 500,
                     !.shape = "error-message",
                     !.error = <<"Internal Server Error">>,
                     !.message = <<"Something went wrong on the server">>]

(* C14: every exception a route handler raises reaches errorHandler, and   *)
(* the status is fixed by the kind of failure: a by-id handler that does   *)
(* not find its id (NotFoundError) is answered 404 with the error's        *)
(* message, a request matching no route is answered 404, and any other     *)
(* exception (here the TypeError of a search whose q is an array) is       *)
(* answered 500 with one fixed body; errorHandler runs for no other        *)
(* request, and 500 is the status of no other response.                    *)
C14_ErrorTranslation ==
  [][LET ran == Ran(stages')
         notFound == ran \cap ByIdHandlers # {} /\ req'.id \notin Ids(products)
         typeError == IsSearch(req') /\ Len(req'.query.q) > 1
     IN  /\ notFound
              => /\ "errorHandler" \in ran
                 /\ res'.status = 404
                 /\ res'.shape = "error"
                 /\ res'.error = <<"Product with ID ", req'.id, " not found">>
         /\ typeError
              => /\ "errorHandler" \in ran
                 /\ res' = GenericServerError
         /\ (IsUnmatched(req') /\ req'.decode # "malformed")
              => /\ res'.status = 404
                 /\ res'.error = <<"Route not found">>
         /\ ("errorHandler" \in ran) = (notFound \/ typeError)
         /\ (res'.status = 500) = typeError
         /\ (notFound \/ typeError \/ IsUnmatched(req')) => products' = products]_vars

(* A search whose q was given twice, answered 500 by errorHandler after    *)
(* the search handler threw, in a store that a create has grown.           *)
C14_Witness ==
  /\ IsSearch(req)
  /\ Len(req.query.q) = 2
  /\ stages[Len(stages)] = "errorHandler"
  /\ "searchProducts" \in Ran(stages)
  /\ res.status = 500
  /\ Len(products) = 6

(***************************************************************************)
(* C15: the search path                                                    *)
(***************************************************************************)

(* C15: a GET of the search path is dispatched to the search handler and   *)
(* never to the get-by-id handler with id "search": with one non-empty q   *)
(* it is answered 200 with search results, with q absent it is answered    *)
(* 400, and it is never answered 404, whatever the store holds.            *)
C15_SearchFirst ==
  IsSearch(req)
    => /\ "searchProducts" \in Ran(stages)
       /\ "getProductById" \notin Ran(stages)
       /\ res.status # 404
       /\ (Len(req.query.q) = 1 /\ req.query.q[1] # <<>>)
            => res.status = 200 /\ res.shape = "search"
       /\ req.query.q = <<>>
            => /\ res.status = 400
               /\ res.error = <<"Search query parameter \"q\" is required">>

(* A search without q answered 400 by the search handler, in a store from  *)
(* which records have been deleted.                                        *)
C15_Witness ==
  /\ IsSearch(req)
  /\ req.query.q = <<>>
  /\ res.status = 400
  /\ sent = <<"searchProducts">>
  /\ Len(products) = 3

(***************************************************************************)
(* C16: insertion order                                                    *)
(***************************************************************************)

(* When the record of an id was created: the seed records in seed order,   *)
(* then the created records in the order of their creation.                *)
CreationRank(id) ==
  IF id \in Ids(SeedProducts)
  THEN CHOOSE i \in 1..Len(SeedProducts) : SeedProducts[i].id = id
  ELSE Len(SeedProducts) + (CHOOSE i \in 1..(MaxCreates + 1) : uuidv4(i) = id)

InCreationOrder(store) ==
  \A i, j \in 1..Len(store) :
    i < j => CreationRank(store[i].id) < CreationRank(store[j].id)

IdsInOrder(store) == [i \in 1..Len(store) |-> store[i].id]

(* A listing request with no filter and the default page and limit. *)
IsPlainListing(r) == IsListing(r) /\ r.query = NoQuery

(* C16: the store holds the surviving records in the order of their        *)
(* creation, seed records first in seed order, and the unfiltered listing  *)
(* returns them in that order; a create appends at the end, an update      *)
(* keeps every record at its position, and a delete removes one record     *)
(* and keeps the others in their relative order.                           *)
C16_InsertionOrder ==
  [][/\ InCreationOrder(products')
     /\ IsPlainListing(req')
          => res'.status = 200 /\ res'.items = products'
     /\ (req'.method = "POST" /\ res'.status = 201)
          => /\ Len(products') = Len(products) + 1
             /\ SubSeq(products', 1, Len(products)) = products
             /\ products'[Len(products')] = res'.items[1]
     /\ (req'.method = "PUT" /\ res'.status = 200)
          => IdsInOrder(products') = IdsInOrder(products)
     /\ (req'.method = "DELETE" /\ res'.status = 200)
          => \E k \in 1..Len(products) :
               /\ products[k].id = req'.id
               /\ products'
                    = [i \in 1..(Len(products) - 1) |->
                         IF i < k THEN products[i] ELSE products[i + 1]]]_vars

(* The unfiltered listing after the first seed record was updated, the     *)
(* third deleted and a record created: the updated record first, the       *)
(* created one last.                                                       *)
C16_Witness ==
  /\ IsPlainListing(req)
  /\ res.status = 200
  /\ res.items = products
  /\ IdsInOrder(products) = <<"1", "2", "4", "5", "uuid-1">>
  /\ products[1].name = <<"T", "v">>

(***************************************************************************)
(* C17: what changes the store                                             *)
(***************************************************************************)

(* C17: the store changes only through a create answered 201, an update    *)
(* answered 200 or a delete answered 200: every GET (listing, search,      *)
(* get-by-id, stats, root), every request for an unmatched route and every *)
(* request answered 4xx or 5xx leaves the store as it was; a successful    *)
(* create adds exactly one record, a successful update changes only the    *)
(* addressed record, and a successful delete removes exactly the addressed *)
(* record.                                                                 *)
C17_StoreFrame ==
  [][/\ products' # products
          => /\ Mutating(req')
             /\ res'.status = IF req'.method = "POST" THEN 201 ELSE 200
     /\ (req'.method = "GET" \/ IsUnmatched(req') \/ res'.status >= 400)
          => products' = products /\ uuidCount' = uuidCount
     /\ (Mutating(req') /\ req'.method = "POST" /\ res'.status = 201)
          => /\ products' = Append(products, res'.items[1])
             /\ res'.items[1].id \notin Ids(products)
     /\ (Mutating(req') /\ req'.method = "PUT" /\ res'.status = 200)
          => /\ Len(products') = Len(products)
             /\ \A i \in 1..Len(products) :
                  IF products[i].id = req'.id
                  THEN products'[i] = res'.items[1] /\ products'[i].id = req'.id
                  ELSE products'[i] = products[i]
     /\ (Mutating(req') /\ req'.method = "DELETE" /\ res'.status = 200)
          => /\ req'.id \in Ids(products)
             /\ Len(products') = Len(products) - 1
             /\ products' = SelectSeq(products, LAMBDA p : p.id # req'.id)]_vars

(* A successful update of the third seed record in a store a create has    *)
(* grown: that record is rewritten and the first is as it was seeded.      *)
C17_Witness ==
  /\ req.method = "PUT"
  /\ req.id = "3"
  /\ res.status = 200
  /\ Len(products) = 6
  /\ products[3] = res.items[1]
  /\ products[3] # SeedProducts[3]
  /\ products[1] = SeedProducts[1]

(***************************************************************************)
(* C18: requests in flight at the same time                                *)
(***************************************************************************)

Answered == {s \in Slots : flight.slots[s].phase = "done"}

(* The orders in which the requests of a set of connections can be taken. *)
Orders(S) ==
  {order \in [1..Cardinality(S) -> S] :
     \A i, j \in 1..Cardinality(S) : order[i] = order[j] => i = j}

(* The requests of the connections in order, from the k-th on, served one  *)
(* at a time: the responses and the store they leave.                      *)
RECURSIVE OneAtATime(_, _, _, _)
OneAtATime(order, k, store, count) ==
  IF k > Len(order)
  THEN [products |-> store, res |-> <<>>]
  ELSE LET out == Serve(flight.slots[order[k]].req, store, count)
           rest == OneAtATime(order, k + 1, out.products, out.uuidCount)
       IN  [rest EXCEPT !.res = <<out.res>> \o @]

DeletesOf(id, status) ==
  {s \in Answered : /\ flight.slots[s].req.method = "DELETE"
                    /\ flight.slots[s].req.id = id
                    /\ flight.slots[s].res.status = status}

(* C18: for the requests in flight at the same time, the responses and the *)
(* store are those of serving the same requests one at a time in some      *)
(* order; two concurrent authorized DELETEs of one id that was in the      *)
(* store get one 200 and one 404 and remove one record; and after a        *)
(* concurrent PUT and DELETE of one id the store holds no record of that   *)
(* id, rewritten after its removal.                                        *)
C18_Serializable ==
  /\ Answered # {} => \E order \in Orders(Answered) :
       LET serial == OneAtATime(order, 1, flight.base, flight.baseCount)
       IN  /\ serial.products = products
           /\ \A k \in 1..Len(order) : serial.res[k] = flight.slots[order[k]].res
  /\ \A id \in ConcurrentIds :
       /\ Cardinality(DeletesOf(id, 200)) = IF id \in Ids(flight.base)
                                               /\ id \notin Ids(products)
                                            THEN 1 ELSE 0
       /\ DeletesOf(id, 200) # {} => id \notin Ids(products)
       /\ \A s \in Answered :
            (flight.slots[s].req.method = "DELETE" /\ flight.slots[s].req.id = id)
              => flight.slots[s].res.status \in {200, 404}
  /\ Cardinality(Ids(products)) = Len(products)

(* Two DELETEs of the first seed record in flight together and both        *)
(* answered: one with 200, the other with 404, and one record gone.        *)
C18_Witness ==
  /\ \A s \in Slots : s <= 2 =>
       /\ flight.slots[s].phase = "done"
       /\ flight.slots[s].req.method = "DELETE"
       /\ flight.slots[s].req.id = "1"
  /\ flight.slots[1].res.status = 404
  /\ flight.slots[2].res.status = 200
  /\ "1" \in Ids(flight.base)
  /\ Len(products) = Len(flight.base) - 1

(***************************************************************************)
(* C19: one response for every request                                     *)
(***************************************************************************)

Stages ==
  Handlers \cup
    {"loggerMiddleware", "bodyParser.json", "jsonErrorMiddleware",
     "authMiddleware", "validateProduct", "routeNotFound", "errorHandler"}

(* C19: every request that enters the stack gets exactly one response:     *)
(* whatever stages it passes (logging, body decoding, the JSON error       *)
(* middleware, authentication, validation, a handler, the 404 catch-all,   *)
(* errorHandler), one of them writes the response, none writes a second    *)
(* one, no stage runs after the response, and no request is left without   *)
(* one; every response with a failure status has an error field.           *)
C19_OneResponse ==
  req # NoRequest
    => /\ Len(stages) >= 3
       /\ stages[1] = "loggerMiddleware"
       /\ stages[2] = "bodyParser.json"
       /\ Ran(stages) \subseteq Stages
       /\ Len(sent) = 1
       /\ sent[1] = stages[Len(stages)]
       /\ res # NoResponse
       /\ res.status \in 200..599
       /\ res.status >= 400
            => /\ res.error # <<>>
               /\ res.shape \in {"error", "error-message", "validation"}

(* An authorized, valid update of an id that is not in the store: the      *)
(* request passes six stages and the last, errorHandler, answers it.       *)
C19_Witness ==
  /\ req.method = "PUT"
  /\ stages = <<"loggerMiddleware", "bodyParser.json", "authMiddleware",
                "validateProduct", "updateProduct", "errorHandler">>
  /\ sent = <<"errorHandler">>
  /\ res.status = 404
  /\ res.error # <<>>

(***************************************************************************)
(* C20: the pages partition the filtered list                              *)
(***************************************************************************)

DigitNumeral(d) ==
  CASE d = 0 -> "0" [] d = 1 -> "1" [] d = 2 -> "2" [] d = 3 -> "3"
    [] d = 4 -> "4" [] d = 5 -> "5" [] d = 6 -> "6" [] d = 7 -> "7"
    [] d = 8 -> "8" [] d = 9 -> "9"

(* The decimal numeral of a number below 100. *)
DecimalNumeral(n) ==
  IF n < 10 THEN <<DigitNumeral(n)>>
  ELSE <<DigitNumeral(n \div 10), DigitNumeral(n % 10)>>

(* What the listing answers for page n of the query, over the store. *)
PageOf(store, query, n) ==
  Serve(Request("GET", "/api/products", "", <<>>, "ok", EmptyBody,
                [query EXCEPT !.page = <<DecimalNumeral(n)>>]),
        store, 0).res

(* The products of pages 1 to n, one page after the other. *)
RECURSIVE PagesUpTo(_, _, _)
PagesUpTo(store, query, n) ==
  IF n = 0 THEN <<>>
  ELSE PagesUpTo(store, query, n - 1) \o PageOf(store, query, n).items

(* How many pages past the last one are looked at. *)
PagesBeyond == 2

(* C20: for a listing with a positive limit, the products of pages 1, 2,   *)
(* ..., totalPages of the same query over the same store, one after the    *)
(* other, are the filtered sequence, each record once and in store order;  *)
(* every page beyond totalPages has no products and hasNextPage false; and *)
(* hasNextPage is true exactly on the pages with currentPage < totalPages. *)
C20_PagesPartition ==
  (/\ IsListing(req)
   /\ req.query.page = << <<"1">> >>
   /\ req.query.limit # <<>> /\ req.query.limit[1] \in PositiveNumerals)
    => LET totalPages == res.pagination.totalPages
           F == Filtered(products, req.query)
       IN  /\ res.status = 200
           /\ res = PageOf(products, req.query, 1)
           /\ PagesUpTo(products, req.query, totalPages) = F
           /\ \A n \in 1..(totalPages + PagesBeyond) :
                LET page == PageOf(products, req.query, n)
                IN  /\ page.status = 200
                    /\ page.pagination.currentPage = n
                    /\ page.pagination.totalPages = totalPages
                    /\ page.pagination.hasNextPage = (n < totalPages)
                    /\ n > totalPages
                         => page.items = <<>> /\ ~page.pagination.hasNextPage
                    /\ n <= totalPages => page.items # <<>>

(* The first of three pages of two over a store of six records, unfiltered. *)
C20_Witness ==
  /\ IsListing(req)
  /\ req.query.page = << <<"1">> >>
  /\ req.query.limit = << <<"2">> >>
  /\ req.query.category = <<>>
  /\ req.query.inStock = <<>>
  /\ Len(products) = 6
  /\ res.pagination.totalPages = 3
  /\ res.pagination.hasNextPage
  /\ PageOf(products, req.query, 3).items = SubSeq(products, 5, 6)

====
